---- MODULE Spec2Model ----
(***************************************************************************)
(* Model of iptables/iptables.go: the composition of the iptables commands *)
(* of one FirewallConfiguration, their execution by ConfigureFirewall, and *)
(* the nat table of the network namespace the commands act on.             *)
(***************************************************************************)
EXTENDS Integers, Sequences, FiniteSets, TLC

VARIABLES
    firewallConfiguration,  \* the FirewallConfiguration of the process
    ExecutionTraceID,       \* the package variable, set when the process loads
    now,                    \* the wall clock, in whole seconds
    table,                  \* the nat table: chain name -> sequence of rules
    pc,                     \* position inside ConfigureFirewall
    idx,                    \* index of the next cleanup / installation command
    commands,               \* the slice composed by ConfigureFirewall
    dispatched,             \* argument vectors run as external processes, in order
    ret,                    \* what ConfigureFirewall returned: "none", "nil", "err"
    runs,                   \* number of processes started so far
    tableAtInstall,         \* history: the table when the "adding rules" loop began
    cleanupErrs,            \* history: indexes of the cleanup commands that failed
    installErr,             \* history: index in commands of the command that failed, 0 if none
    envFailed,              \* history: a command of this run failed for a reason outside the table
    cmdArgs,                \* cmd.Args of the last command given to executeCommand, after the call
    prev,                   \* history: ret, ExecutionTraceID and start time of the previous process
    dumpErrs                \* history: the dumps of this run that failed, by their position

vars == <<firewallConfiguration, ExecutionTraceID, now, table, pc, idx, commands,
          dispatched, ret, runs, tableAtInstall, cleanupErrs, installErr,
          envFailed, cmdArgs, prev, dumpErrs>>

-----------------------------------------------------------------------------
(* Bounds of the model *)

MaxPorts == 2       \* longest port list of a configuration that is only composed
MaxRunPorts == 1    \* longest port list of a configuration that is executed
MaxRuns == 2        \* processes run one after the other on the same table

-----------------------------------------------------------------------------
(* Constants of the package *)

RedirectAllMode == "redirect-all"
RedirectListedMode == "redirect-listed"
IptablesPreroutingChainName == "PREROUTING"
IptablesOutputChainName == "OUTPUT"
outputChainName == "PROXY_INIT_OUTPUT"
redirectChainName == "PROXY_INIT_REDIRECT"

-----------------------------------------------------------------------------
(* Rule primitive builders: each returns the Args of the exec.Cmd *)

Itoa(n) == ToString(n)

(* formatComment as it would be without the ExecutionTraceID *)
formatComment_WithoutTraceID(text) == "proxy-init/" \o text


formatComment(text) == "proxy-init/" \o text \o "/" \o ExecutionTraceID

makeIgnoreUserID(chainName, uid, comment) ==
    <<"iptables", "-t", "nat", "-A", chainName,
      "-m", "owner", "--uid-owner", Itoa(uid),
      "-j", "RETURN",
      "-m", "comment", "--comment", formatComment(comment)>>

makeCreateNewChain(name, comment) ==
    <<"iptables", "-t", "nat", "-N", name,
      "-m", "comment", "--comment", formatComment(comment)>>

makeFlushChain(name) == <<"iptables", "-t", "nat", "-F", name>>

makeDeleteChain(name) == <<"iptables", "-t", "nat", "-X", name>>

makeRedirectChainToPort(chainName, portToRedirect, comment) ==
    <<"iptables", "-t", "nat", "-A", chainName,
      "-p", "tcp",
      "-j", "REDIRECT", "--to-port", Itoa(portToRedirect),
      "-m", "comment", "--comment", formatComment(comment)>>

makeIgnorePort(chainName, portToIgnore, comment) ==
    <<"iptables", "-t", "nat", "-A", chainName,
      "-p", "tcp", "--destination-port", Itoa(portToIgnore),
      "-j", "RETURN",
      "-m", "comment", "--comment", formatComment(comment)>>

makeIgnoreLoopback(chainName, comment) ==
    <<"iptables", "-t", "nat", "-A", chainName,
      "-o", "lo",
      "-j", "RETURN",
      "-m", "comment", "--comment", formatComment(comment)>>

makeRedirectChainToPortBasedOnDestinationPort(chainName, destinationPort, portToRedirect, comment) ==
    <<"iptables", "-t", "nat", "-A", chainName,
      "-p", "tcp", "--destination-port", Itoa(destinationPort),
      "-j", "REDIRECT", "--to-port", Itoa(portToRedirect),
      "-m", "comment", "--comment", formatComment(comment)>>

makeJumpFromChainToAnotherForAllProtocols(chainName, targetChain, comment, delete) ==
    LET action == IF delete THEN "-D" ELSE "-A"
    IN  <<"iptables", "-t", "nat", action, chainName,
          "-j", targetChain,
          "-m", "comment", "--comment", formatComment(comment)>>

makeRedirectChainForOutgoingTraffic(chainName, redirectChain, uid, comment) ==
    <<"iptables", "-t", "nat", "-A", chainName,
      "-m", "owner", "--uid-owner", Itoa(uid),
      "-o", "lo",
      "!", "-d 127.0.0.1/32",
      "-j", redirectChain,
      "-m", "comment", "--comment", formatComment(comment)>>

makeShowAllRules == <<"iptables-save">>

-----------------------------------------------------------------------------
(* Rule transaction composers *)

addRulesForIgnoredPorts(portsToIgnore, chainName, cmds) ==
    cmds \o [i \in 1..Len(portsToIgnore) |->
                makeIgnorePort(chainName, portsToIgnore[i],
                               "ignore-port-" \o Itoa(portsToIgnore[i]))]

(* addRulesForInboundPortRedirect as it would be with the two ports of     *)
(* makeRedirectChainToPortBasedOnDestinationPort given in the other order *)
addRulesForInboundPortRedirect_SwappedPorts(cfg, chainName, cmds) ==
    IF cfg.Mode = RedirectAllMode
    THEN Append(cmds, makeRedirectChainToPort(chainName, cfg.ProxyInboundPort,
                                              "redirect-all-incoming-to-proxy-port"))
    ELSE IF cfg.Mode = RedirectListedMode
    THEN cmds \o [i \in 1..Len(cfg.PortsToRedirectInbound) |->
                    makeRedirectChainToPortBasedOnDestinationPort(
                        chainName,
                        cfg.ProxyInboundPort,
                        cfg.PortsToRedirectInbound[i],
                        "redirect-port-" \o Itoa(cfg.PortsToRedirectInbound[i])
                            \o "-to-proxy-port")]
    ELSE cmds

(* addRulesForInboundPortRedirect as it would be with "if" in place of    *)
(* "else if": the listed ports are redirected in redirect-all mode too    *)
addRulesForInboundPortRedirect_ListedInAllMode(cfg, chainName, cmds) ==
    LET c1 == IF cfg.Mode = RedirectAllMode
              THEN Append(cmds, makeRedirectChainToPort(chainName, cfg.ProxyInboundPort,
                                                        "redirect-all-incoming-to-proxy-port"))
              ELSE cmds
    IN  IF cfg.Mode \in {RedirectAllMode, RedirectListedMode}
        THEN c1 \o [i \in 1..Len(cfg.PortsToRedirectInbound) |->
                      makeRedirectChainToPortBasedOnDestinationPort(
                          chainName,
                          cfg.PortsToRedirectInbound[i],
                          cfg.ProxyInboundPort,
                          "redirect-port-" \o Itoa(cfg.PortsToRedirectInbound[i])
                              \o "-to-proxy-port")]
        ELSE c1

(* addRulesForInboundPortRedirect as it would be if every mode other than  *)
(* redirect-all were taken for redirect-listed                             *)
addRulesForInboundPortRedirect_ListedByDefault(cfg, chainName, cmds) ==
    IF cfg.Mode = RedirectAllMode
    THEN Append(cmds, makeRedirectChainToPort(chainName, cfg.ProxyInboundPort,
                                              "redirect-all-incoming-to-proxy-port"))
    ELSE cmds \o [i \in 1..Len(cfg.PortsToRedirectInbound) |->
                    makeRedirectChainToPortBasedOnDestinationPort(
                        chainName,
                        cfg.PortsToRedirectInbound[i],
                        cfg.ProxyInboundPort,
                        "redirect-port-" \o Itoa(cfg.PortsToRedirectInbound[i])
                            \o "-to-proxy-port")]


addRulesForInboundPortRedirect(cfg, chainName, cmds) ==
    IF cfg.Mode = RedirectAllMode
    THEN Append(cmds, makeRedirectChainToPort(chainName, cfg.ProxyInboundPort,
                                              "redirect-all-incoming-to-proxy-port"))
    ELSE IF cfg.Mode = RedirectListedMode
    THEN cmds \o [i \in 1..Len(cfg.PortsToRedirectInbound) |->
                    makeRedirectChainToPortBasedOnDestinationPort(
                        chainName,
                        cfg.PortsToRedirectInbound[i],
                        cfg.ProxyInboundPort,
                        "redirect-port-" \o Itoa(cfg.PortsToRedirectInbound[i])
                            \o "-to-proxy-port")]
    ELSE cmds

(* addIncomingTrafficRules as it would be with the redirect rules appended *)
(* before the rules for the ignored ports                                  *)
addIncomingTrafficRules_RedirectBeforeIgnored(cmds, cfg) ==
    LET c1 == Append(cmds, makeCreateNewChain(redirectChainName, "redirect-common-chain"))
        c2 == addRulesForInboundPortRedirect(cfg, redirectChainName, c1)
        c3 == addRulesForIgnoredPorts(cfg.InboundPortsToIgnore, redirectChainName, c2)
    IN  Append(c3, makeJumpFromChainToAnotherForAllProtocols(
                       IptablesPreroutingChainName, redirectChainName,
                       "install-proxy-init-prerouting", FALSE))


addIncomingTrafficRules(cmds, cfg) ==
    LET c1 == Append(cmds, makeCreateNewChain(redirectChainName, "redirect-common-chain"))
        c2 == addRulesForIgnoredPorts(cfg.InboundPortsToIgnore, redirectChainName, c1)
        c3 == addRulesForInboundPortRedirect(cfg, redirectChainName, c2)
    IN  Append(c3, makeJumpFromChainToAnotherForAllProtocols(
                       IptablesPreroutingChainName, redirectChainName,
                       "install-proxy-init-prerouting", FALSE))

(* addOutgoingTrafficRules as it would be with the redirect appended before *)
(* the rules of the ignored ports                                           *)
addOutgoingTrafficRules_RedirectBeforePorts(cmds, cfg) ==
    LET c1 == Append(cmds, makeCreateNewChain(outputChainName, "redirect-common-chain"))
        c2 == IF cfg.ProxyUID > 0
              THEN c1 \o <<makeRedirectChainForOutgoingTraffic(
                               outputChainName, redirectChainName, cfg.ProxyUID,
                               "redirect-non-loopback-local-traffic"),
                           makeIgnoreUserID(outputChainName, cfg.ProxyUID,
                                            "ignore-proxy-user-id")>>
              ELSE c1
        c3 == Append(c2, makeIgnoreLoopback(outputChainName, "ignore-loopback"))
        c4 == Append(c3, makeRedirectChainToPort(outputChainName, cfg.ProxyOutgoingPort,
                                                 "redirect-all-outgoing-to-proxy-port"))
        c5 == addRulesForIgnoredPorts(cfg.OutboundPortsToIgnore, outputChainName, c4)
    IN  Append(c5, makeJumpFromChainToAnotherForAllProtocols(
                       IptablesOutputChainName, outputChainName,
                       "install-proxy-init-output", FALSE))

(* addOutgoingTrafficRules as it would be with the two rules of the proxy's *)
(* uid appended in the other order                                          *)
addOutgoingTrafficRules_IgnoreUserIDFirst(cmds, cfg) ==
    LET c1 == Append(cmds, makeCreateNewChain(outputChainName, "redirect-common-chain"))
        c2 == IF cfg.ProxyUID > 0
              THEN c1 \o <<makeIgnoreUserID(outputChainName, cfg.ProxyUID,
                                            "ignore-proxy-user-id"),
                           makeRedirectChainForOutgoingTraffic(
                               outputChainName, redirectChainName, cfg.ProxyUID,
                               "redirect-non-loopback-local-traffic")>>
              ELSE c1
        c3 == Append(c2, makeIgnoreLoopback(outputChainName, "ignore-loopback"))
        c4 == addRulesForIgnoredPorts(cfg.OutboundPortsToIgnore, outputChainName, c3)
        c5 == Append(c4, makeRedirectChainToPort(outputChainName, cfg.ProxyOutgoingPort,
                                                 "redirect-all-outgoing-to-proxy-port"))
    IN  Append(c5, makeJumpFromChainToAnotherForAllProtocols(
                       IptablesOutputChainName, outputChainName,
                       "install-proxy-init-output", FALSE))

(* addOutgoingTrafficRules as it would be without the RETURN rule of the    *)
(* proxy's uid                                                              *)
addOutgoingTrafficRules_NoIgnoreUserID(cmds, cfg) ==
    LET c1 == Append(cmds, makeCreateNewChain(outputChainName, "redirect-common-chain"))
        c2 == IF cfg.ProxyUID > 0
              THEN Append(c1, makeRedirectChainForOutgoingTraffic(
                                  outputChainName, redirectChainName, cfg.ProxyUID,
                                  "redirect-non-loopback-local-traffic"))
              ELSE c1
        c3 == Append(c2, makeIgnoreLoopback(outputChainName, "ignore-loopback"))
        c4 == addRulesForIgnoredPorts(cfg.OutboundPortsToIgnore, outputChainName, c3)
        c5 == Append(c4, makeRedirectChainToPort(outputChainName, cfg.ProxyOutgoingPort,
                                                 "redirect-all-outgoing-to-proxy-port"))
    IN  Append(c5, makeJumpFromChainToAnotherForAllProtocols(
                       IptablesOutputChainName, outputChainName,
                       "install-proxy-init-output", FALSE))

(* addOutgoingTrafficRules as it would be if only ProxyUID 0 meant that no *)
(* proxy identity is configured                                            *)
addOutgoingTrafficRules_NonZeroUID(cmds, cfg) ==
    LET c1 == Append(cmds, makeCreateNewChain(outputChainName, "redirect-common-chain"))
        c2 == IF cfg.ProxyUID # 0
              THEN c1 \o <<makeRedirectChainForOutgoingTraffic(
                               outputChainName, redirectChainName, cfg.ProxyUID,
                               "redirect-non-loopback-local-traffic"),
                           makeIgnoreUserID(outputChainName, cfg.ProxyUID,
                                            "ignore-proxy-user-id")>>
              ELSE c1
        c3 == Append(c2, makeIgnoreLoopback(outputChainName, "ignore-loopback"))
        c4 == addRulesForIgnoredPorts(cfg.OutboundPortsToIgnore, outputChainName, c3)
        c5 == Append(c4, makeRedirectChainToPort(outputChainName, cfg.ProxyOutgoingPort,
                                                 "redirect-all-outgoing-to-proxy-port"))
    IN  Append(c5, makeJumpFromChainToAnotherForAllProtocols(
                       IptablesOutputChainName, outputChainName,
                       "install-proxy-init-output", FALSE))


addOutgoingTrafficRules(cmds, cfg) ==
    LET c1 == Append(cmds, makeCreateNewChain(outputChainName, "redirect-common-chain"))
        c2 == IF cfg.ProxyUID > 0
              THEN c1 \o <<makeRedirectChainForOutgoingTraffic(
                               outputChainName, redirectChainName, cfg.ProxyUID,
                               "redirect-non-loopback-local-traffic"),
                           makeIgnoreUserID(outputChainName, cfg.ProxyUID,
                                            "ignore-proxy-user-id")>>
              ELSE c1
        c3 == Append(c2, makeIgnoreLoopback(outputChainName, "ignore-loopback"))
        c4 == addRulesForIgnoredPorts(cfg.OutboundPortsToIgnore, outputChainName, c3)
        c5 == Append(c4, makeRedirectChainToPort(outputChainName, cfg.ProxyOutgoingPort,
                                                 "redirect-all-outgoing-to-proxy-port"))
    IN  Append(c5, makeJumpFromChainToAnotherForAllProtocols(
                       IptablesOutputChainName, outputChainName,
                       "install-proxy-init-output", FALSE))

(* The cleanup as it would be if it flushed the hook chain OUTPUT instead  *)
(* of the chain PROXY_INIT_OUTPUT                                          *)
cleanupCommands_FlushesOutputHook ==
    <<makeJumpFromChainToAnotherForAllProtocols(
          IptablesOutputChainName, outputChainName, "install-proxy-init-prerouting", TRUE),
      makeJumpFromChainToAnotherForAllProtocols(
          IptablesPreroutingChainName, redirectChainName, "install-proxy-init-prerouting", TRUE),
      makeFlushChain(IptablesOutputChainName),
      makeDeleteChain(outputChainName),
      makeFlushChain(redirectChainName),
      makeDeleteChain(redirectChainName)>>

(* The six commands of the "cleanup" section, in the order of the code *)
cleanupCommands ==
    <<makeJumpFromChainToAnotherForAllProtocols(
          IptablesOutputChainName, outputChainName, "install-proxy-init-prerouting", TRUE),
      makeJumpFromChainToAnotherForAllProtocols(
          IptablesPreroutingChainName, redirectChainName, "install-proxy-init-prerouting", TRUE),
      makeFlushChain(outputChainName),
      makeDeleteChain(outputChainName),
      makeFlushChain(redirectChainName),
      makeDeleteChain(redirectChainName)>>

-----------------------------------------------------------------------------
(* The external tools: nsenter, iptables and iptables-save acting on the    *)
(* nat table of the target network namespace.  A rule is the argument list  *)
(* that followed the chain name when it was appended.                       *)

Ports == {80, 8080}

InitialTable ==
    [c \in {IptablesPreroutingChainName, "INPUT", IptablesOutputChainName,
            "POSTROUTING", "KUBE-SERVICES"} |->
        IF c \in {IptablesPreroutingChainName, IptablesOutputChainName}
        THEN <<<<"-j", "KUBE-SERVICES", "-m", "comment", "--comment", "service portals">>>>
        ELSE <<>>]

BuiltinTargets == {"RETURN", "REDIRECT", "ACCEPT", "DROP"}

(* The word that follows the first occurrence of flag in args, "" if none *)
ArgAfter(args, flag) ==
    LET at == {i \in 1..(Len(args) - 1) : args[i] = flag}
    IN  IF at = {} THEN ""
        ELSE args[(CHOOSE i \in at : \A j \in at : i <= j) + 1]

Target(rule) == ArgAfter(rule, "-j")

Referenced(tbl, chain) ==
    \E c \in DOMAIN tbl : \E i \in 1..Len(tbl[c]) : Target(tbl[c][i]) = chain

StripNsenter(argv) ==
    IF Len(argv) > 3 /\ argv[1] = "nsenter" /\ argv[2] = "--net"
    THEN SubSeq(argv, 4, Len(argv)) ELSE argv

StripWait(argv) ==
    IF Len(argv) > 1 /\ argv[Len(argv)] = "-w"
    THEN SubSeq(argv, 1, Len(argv) - 1) ELSE argv

RemoveAt(seq, i) == SubSeq(seq, 1, i - 1) \o SubSeq(seq, i + 1, Len(seq))

(* What the process does to the table tbl when nothing outside the table   *)
(* makes it fail: ok is its exit status, table the table it leaves.        *)
RunTool(tbl, argv) ==
    LET a      == StripWait(StripNsenter(argv))
        failed == [ok |-> FALSE, table |-> tbl]
    IN  IF a[1] # "iptables" THEN [ok |-> TRUE, table |-> tbl]
        ELSE
        LET action == a[4]
            chain  == a[5]
            rule   == SubSeq(a, 6, Len(a))
            same   == IF chain \in DOMAIN tbl
                      THEN {i \in 1..Len(tbl[chain]) : tbl[chain][i] = rule} ELSE {}
        IN  CASE action = "-N" ->
                    IF chain \in DOMAIN tbl THEN failed
                    ELSE [ok |-> TRUE, table |-> (chain :> <<>>) @@ tbl]
              [] action = "-F" ->
                    IF chain \notin DOMAIN tbl THEN failed
                    ELSE [ok |-> TRUE, table |-> [tbl EXCEPT ![chain] = <<>>]]
              [] action = "-X" ->
                    IF chain \notin DOMAIN tbl \/ tbl[chain] # <<>> \/ Referenced(tbl, chain)
                    THEN failed
                    ELSE [ok |-> TRUE,
                          table |-> [c \in DOMAIN tbl \ {chain} |-> tbl[c]]]
              [] action = "-A" ->
                    IF chain \notin DOMAIN tbl
                       \/ (Target(rule) \notin BuiltinTargets /\ Target(rule) \notin DOMAIN tbl)
                    THEN failed
                    ELSE [ok |-> TRUE, table |-> [tbl EXCEPT ![chain] = Append(@, rule)]]
              [] action = "-D" ->
                    IF same = {} THEN failed
                    ELSE [ok |-> TRUE,
                          table |-> [tbl EXCEPT ![chain] =
                                        RemoveAt(@, CHOOSE i \in same : \A j \in same : i <= j)]]
              [] OTHER -> failed

-----------------------------------------------------------------------------
(* First-match evaluation of a hook chain for one packet *)

Matches(rule, pkt) ==
    /\ (\E i \in 1..Len(rule) : rule[i] = "-p") => ArgAfter(rule, "-p") = pkt.proto
    /\ (\E i \in 1..Len(rule) : rule[i] = "--destination-port") =>
            ArgAfter(rule, "--destination-port") = Itoa(pkt.dport)
    /\ (\E i \in 1..Len(rule) : rule[i] = "--uid-owner") =>
            ArgAfter(rule, "--uid-owner") = Itoa(pkt.uid)
    /\ (\E i \in 1..Len(rule) : rule[i] = "-o") => ArgAfter(rule, "-o") = pkt.oif
    /\ ArgAfter(rule, "!") = "-d 127.0.0.1/32" => pkt.dst # "127.0.0.1"

NoVerdict == [verdict |-> "NONE", chain |-> "", index |-> 0, port |-> ""]

(* The rule of chain, from index i on, that decides the packet; NoVerdict   *)
(* when the chain returns to its caller without deciding                    *)
RECURSIVE Walk(_, _, _, _)
Walk(tbl, chain, i, pkt) ==
    IF i > Len(tbl[chain]) THEN NoVerdict
    ELSE LET rule == tbl[chain][i]
             t    == Target(rule)
         IN  IF ~Matches(rule, pkt) THEN Walk(tbl, chain, i + 1, pkt)
             ELSE IF t = "RETURN" THEN NoVerdict
             ELSE IF t \in BuiltinTargets
                  THEN [verdict |-> t, chain |-> chain, index |-> i,
                        port |-> ArgAfter(rule, "--to-port")]
             ELSE LET v == Walk(tbl, t, 1, pkt)
                  IN  IF v.verdict = "NONE" THEN Walk(tbl, chain, i + 1, pkt) ELSE v

(* The verdict of a built-in chain: its policy, ACCEPT, when no rule decides *)
Hook(tbl, chain, pkt) ==
    LET v == Walk(tbl, chain, 1, pkt)
    IN  IF v.verdict = "NONE" THEN [NoVerdict EXCEPT !.verdict = "ACCEPT"] ELSE v

Packets(uids) ==
    [uid : uids, oif : {"lo", "eth0"}, dst : {"127.0.0.1", "10.0.0.7"},
     dport : Ports \cup {443}, proto : {"tcp", "udp"}]

-----------------------------------------------------------------------------
(* executeCommand: the argument vector it builds, and its effect *)

WithWaitFlag(cfg, cmd) == IF cfg.UseWaitFlag THEN Append(cmd, "-w") ELSE cmd

WithNsenter(cfg, args) ==
    IF Len(cfg.NetNs) > 0 THEN <<"nsenter", "--net", cfg.NetNs>> \o args ELSE args

ExecArgs(cfg, cmd) == WithNsenter(cfg, WithWaitFlag(cfg, cmd))

(* executeCommand as it would be without the test of SimulateOnly *)
executeCommand_IgnoresSimulateOnly(cmd, ok, envFail) ==
    LET argv == ExecArgs(firewallConfiguration, cmd)
        res  == RunTool(table, argv)
    IN  /\ cmdArgs' = argv
        /\ dispatched' = Append(dispatched, argv)
        /\ envFail => res.ok
        /\ ok = (res.ok /\ ~envFail)
        /\ table' = IF envFail THEN table ELSE res.table
        /\ envFailed' = (envFailed \/ envFail)

(* executeCommand as it would be if SimulateOnly were tested before the    *)
(* wait flag is appended                                                   *)
executeCommand_SimulateBeforeWaitFlag(cmd, ok, envFail) ==
    IF firewallConfiguration.SimulateOnly
    THEN /\ ok = TRUE
         /\ envFail = FALSE
         /\ cmdArgs' = cmd
         /\ UNCHANGED <<table, dispatched, envFailed>>
    ELSE LET argv == ExecArgs(firewallConfiguration, cmd)
             res  == RunTool(table, argv)
         IN  /\ cmdArgs' = argv
             /\ dispatched' = Append(dispatched, argv)
             /\ envFail => res.ok
             /\ ok = (res.ok /\ ~envFail)
             /\ table' = IF envFail THEN table ELSE res.table
             /\ envFailed' = (envFailed \/ envFail)

(* executeCommand(firewallConfiguration, cmd) returning err = (~ok).  With  *)
(* SimulateOnly nothing is run.  Otherwise the process is run; envFail is   *)
(* a failure whose cause lies outside the table (privilege, lock, missing   *)
(* binary or namespace), and it leaves the table as it was.                 *)
executeCommand(cmd, ok, envFail) ==
    IF firewallConfiguration.SimulateOnly
    THEN /\ ok = TRUE
         /\ envFail = FALSE
         /\ cmdArgs' = WithWaitFlag(firewallConfiguration, cmd)
         /\ UNCHANGED <<table, dispatched, envFailed>>
    ELSE LET argv == ExecArgs(firewallConfiguration, cmd)
             res  == RunTool(table, argv)
         IN  /\ cmdArgs' = argv
             /\ dispatched' = Append(dispatched, argv)
             /\ envFail => res.ok
             /\ ok = (res.ok /\ ~envFail)
             /\ table' = IF envFail THEN table ELSE res.table
             /\ envFailed' = (envFailed \/ envFail)

-----------------------------------------------------------------------------
(* Configurations *)

PortLists(max) == UNION {[1..n -> Ports] : n \in 0..max}
Modes == {RedirectAllMode, RedirectListedMode, ""}

Configs(max, uids, netNs, waitFlags) ==
    [Mode : Modes,
     PortsToRedirectInbound : PortLists(max),
     InboundPortsToIgnore : PortLists(max),
     OutboundPortsToIgnore : PortLists(max),
     ProxyInboundPort : {4143},
     ProxyOutgoingPort : {4140},
     ProxyUID : uids,
     SimulateOnly : BOOLEAN,
     NetNs : netNs,
     UseWaitFlag : waitFlags]

(* The configurations that are run several times over *)
RerunConfigs ==
    [Mode : {RedirectAllMode, RedirectListedMode},
     PortsToRedirectInbound : {<<>>, <<8080>>},
     InboundPortsToIgnore : {<<>>, <<80>>},
     OutboundPortsToIgnore : {<<>>, <<80>>},
     ProxyInboundPort : {4143},
     ProxyOutgoingPort : {4140},
     ProxyUID : {0, 2102},
     SimulateOnly : {FALSE},
     NetNs : {""},
     UseWaitFlag : BOOLEAN]

-----------------------------------------------------------------------------
(* ConfigureFirewall, one step per command given to executeCommand *)

InitWith(configs, at) ==
    /\ firewallConfiguration \in configs
    /\ now = 1
    /\ ExecutionTraceID = Itoa(1)
    /\ table = InitialTable
    /\ pc = at
    /\ idx = 1
    /\ commands = <<>>
    /\ dispatched = <<>>
    /\ ret = "none"
    /\ runs = 1
    /\ tableAtInstall = InitialTable
    /\ cleanupErrs = {}
    /\ installErr = 0
    /\ envFailed = FALSE
    /\ cmdArgs = <<>>
    /\ prev = [ret |-> "none", id |-> "", at |-> 0]
    /\ dumpErrs = {}

(* One process, from the call of ConfigureFirewall *)
Init ==
    InitWith(Configs(MaxRunPorts, {0, 2102}, {"", "/proc/7/ns/net"}, BOOLEAN),
             "current state")

(* Processes run one after the other *)
InitRerun == InitWith(RerunConfigs, "current state")

(* The composition alone, from line 87; it reads neither NetNs nor UseWaitFlag *)
InitCompose ==
    InitWith(Configs(MaxPorts, {-1, 0, 2102}, {""}, {FALSE}), "configuration")

(* ShowCurrentState as it would be if the error of the first dump were     *)
(* discarded like the error of the last one                                *)
ShowCurrentState_IgnoresError ==
    /\ pc = "current state"
    /\ \E ok, envFail \in BOOLEAN :
          /\ executeCommand(makeShowAllRules, ok, envFail)
          /\ dumpErrs' = IF ok THEN dumpErrs ELSE dumpErrs \cup {"current state"}
    /\ pc' = "cleanup"
    /\ ret' = ret
    /\ UNCHANGED <<firewallConfiguration, ExecutionTraceID, now, idx, commands, runs,
                   tableAtInstall, cleanupErrs, installErr, prev>>

(* lines 57-62: the dump of the current state; its failure aborts *)
ShowCurrentState ==
    /\ pc = "current state"
    /\ \E ok, envFail \in BOOLEAN :
          /\ executeCommand(makeShowAllRules, ok, envFail)
          /\ IF ok THEN pc' = "cleanup" /\ ret' = ret
                   ELSE pc' = "done" /\ ret' = "err"
          /\ dumpErrs' = IF ok THEN dumpErrs ELSE dumpErrs \cup {"current state"}
    /\ UNCHANGED <<firewallConfiguration, ExecutionTraceID, now, idx, commands, runs,
                   tableAtInstall, cleanupErrs, installErr, prev>>

(* Cleanup as it would be if the error of a cleanup command were returned *)
Cleanup_ReturnsError ==
    /\ pc = "cleanup"
    /\ \E ok, envFail \in BOOLEAN :
          /\ executeCommand(cleanupCommands[idx], ok, envFail)
          /\ cleanupErrs' = IF ok THEN cleanupErrs ELSE cleanupErrs \cup {idx}
          /\ IF ~ok THEN pc' = "done" /\ ret' = "err" /\ idx' = idx
             ELSE /\ ret' = ret
                  /\ IF idx = Len(cleanupCommands)
                     THEN pc' = "configuration" /\ idx' = 1
                     ELSE pc' = pc /\ idx' = idx + 1
    /\ UNCHANGED <<firewallConfiguration, ExecutionTraceID, now, commands, runs,
                   tableAtInstall, installErr, prev, dumpErrs>>

(* lines 64-85: the cleanup commands, their errors discarded *)
Cleanup ==
    /\ pc = "cleanup"
    /\ \E ok, envFail \in BOOLEAN :
          /\ executeCommand(cleanupCommands[idx], ok, envFail)
          /\ cleanupErrs' = IF ok THEN cleanupErrs ELSE cleanupErrs \cup {idx}
    /\ IF idx = Len(cleanupCommands)
       THEN pc' = "configuration" /\ idx' = 1
       ELSE pc' = pc /\ idx' = idx + 1
    /\ UNCHANGED <<firewallConfiguration, ExecutionTraceID, now, commands, ret, runs,
                   tableAtInstall, installErr, prev, dumpErrs>>

(* Compose as it would be with lines 91 and 93 in the other order *)
Compose_OutboundFirst ==
    /\ pc = "configuration"
    /\ commands' = addIncomingTrafficRules(
                       addOutgoingTrafficRules(<<>>, firewallConfiguration),
                       firewallConfiguration)
    /\ pc' = "adding rules"
    /\ idx' = 1
    /\ tableAtInstall' = table
    /\ UNCHANGED <<firewallConfiguration, ExecutionTraceID, now, table, dispatched, ret,
                   runs, cleanupErrs, installErr, envFailed, cmdArgs, prev, dumpErrs>>

(* Compose as it would be if the slice returned by addOutgoingTrafficRules *)
(* were not assigned to commands                                           *)
Compose_DropsOutgoing ==
    /\ pc = "configuration"
    /\ commands' = addIncomingTrafficRules(<<>>, firewallConfiguration)
    /\ pc' = "adding rules"
    /\ idx' = 1
    /\ tableAtInstall' = table
    /\ UNCHANGED <<firewallConfiguration, ExecutionTraceID, now, table, dispatched, ret,
                   runs, cleanupErrs, installErr, envFailed, cmdArgs, prev, dumpErrs>>

(* lines 87-95: the commands slice is composed *)
Compose ==
    /\ pc = "configuration"
    /\ commands' = addOutgoingTrafficRules(
                       addIncomingTrafficRules(<<>>, firewallConfiguration),
                       firewallConfiguration)
    /\ pc' = "adding rules"
    /\ idx' = 1
    /\ tableAtInstall' = table
    /\ UNCHANGED <<firewallConfiguration, ExecutionTraceID, now, table, dispatched, ret,
                   runs, cleanupErrs, installErr, envFailed, cmdArgs, prev, dumpErrs>>

(* AddRule as it would be if the loop went on after an error *)
AddRule_ContinuesAfterError ==
    /\ pc = "adding rules"
    /\ \E ok, envFail \in BOOLEAN :
          /\ executeCommand(commands[idx], ok, envFail)
          /\ installErr' = IF ~ok /\ installErr = 0 THEN idx ELSE installErr
          /\ ret' = ret
          /\ idx' = idx + 1
          /\ pc' = IF idx = Len(commands) THEN "end state" ELSE pc
    /\ UNCHANGED <<firewallConfiguration, ExecutionTraceID, now, commands, runs,
                   tableAtInstall, cleanupErrs, prev, dumpErrs>>

(* lines 97-106: one iteration of the loop over commands *)
AddRule ==
    /\ pc = "adding rules"
    /\ \E ok, envFail \in BOOLEAN :
          /\ executeCommand(commands[idx], ok, envFail)
          /\ IF ~ok THEN pc' = "done" /\ ret' = "err" /\ idx' = idx /\ installErr' = idx
             ELSE /\ ret' = ret
                  /\ idx' = idx + 1
                  /\ installErr' = installErr
                  /\ pc' = IF idx = Len(commands) THEN "end state" ELSE pc
    /\ UNCHANGED <<firewallConfiguration, ExecutionTraceID, now, commands, runs,
                   tableAtInstall, cleanupErrs, prev, dumpErrs>>

(* lines 108-112: the dump of the end state, its error discarded *)
ShowEndState ==
    /\ pc = "end state"
    /\ \E ok, envFail \in BOOLEAN :
          /\ executeCommand(makeShowAllRules, ok, envFail)
          /\ dumpErrs' = IF ok THEN dumpErrs ELSE dumpErrs \cup {"end state"}
    /\ pc' = "done"
    /\ ret' = "nil"
    /\ UNCHANGED <<firewallConfiguration, ExecutionTraceID, now, idx, commands, runs,
                   tableAtInstall, cleanupErrs, installErr, prev>>

(* The operator runs the program again with the same configuration: a new  *)
(* process, whose ExecutionTraceID is initialised from the clock (line 31) *)
StartProcess ==
    /\ pc = "done"
    /\ runs < MaxRuns
    /\ \E t \in {now, now + 1} :
          /\ now' = t
          /\ ExecutionTraceID' = Itoa(t)
    /\ prev' = [ret |-> ret, id |-> ExecutionTraceID, at |-> now]
    /\ dumpErrs' = {}
    /\ runs' = runs + 1
    /\ pc' = "current state"
    /\ idx' = 1
    /\ commands' = <<>>
    /\ dispatched' = <<>>
    /\ ret' = "none"
    /\ tableAtInstall' = table
    /\ cleanupErrs' = {}
    /\ installErr' = 0
    /\ envFailed' = FALSE
    /\ cmdArgs' = <<>>
    /\ UNCHANGED <<firewallConfiguration, table>>

Next ==
    \/ ShowCurrentState
    \/ Cleanup
    \/ Compose
    \/ AddRule
    \/ ShowEndState

NextRerun ==
    \/ Next
    \/ StartProcess

NextCompose == Compose

Spec == Init /\ [][Next]_vars

SpecRerun == InitRerun /\ [][NextRerun]_vars

SpecCompose == InitCompose /\ [][NextCompose]_vars

-----------------------------------------------------------------------------
(* Reading a command back *)

Action(argv) == LET a == StripWait(StripNsenter(argv)) IN IF Len(a) > 4 THEN a[4] ELSE ""
Chain(argv) == LET a == StripWait(StripNsenter(argv)) IN IF Len(a) > 4 THEN a[5] ELSE ""
Rule(argv) == LET a == StripWait(StripNsenter(argv)) IN SubSeq(a, 6, Len(a))
Has(args, flag) == \E i \in 1..Len(args) : args[i] = flag

(* The table after the commands cmds[1..n] have all run successfully on tbl *)
RECURSIVE Effect(_, _, _)
Effect(tbl, cmds, n) ==
    IF n = 0 THEN tbl
    ELSE RunTool(Effect(tbl, cmds, n - 1), ExecArgs(firewallConfiguration, cmds[n])).table

(* What ConfigureFirewall has run when it stands before commands[n + 1] *)
DispatchedBefore(n) ==
    <<ExecArgs(firewallConfiguration, makeShowAllRules)>>
    \o [k \in 1..Len(cleanupCommands) |-> ExecArgs(firewallConfiguration, cleanupCommands[k])]
    \o [k \in 1..n |-> ExecArgs(firewallConfiguration, commands[k])]

-----------------------------------------------------------------------------
(* C1: installation is fail-fast with no rollback.  When SimulateOnly is   *)
(* false and the i-th command of the "adding rules" loop fails,            *)
(* ConfigureFirewall has returned that error, the failed command is the    *)
(* last one that was run (no later installation command, no delete or      *)
(* flush, no final dump), and the table holds exactly the effect of the    *)
(* commands 1..i-1 on the table the loop started from.                     *)
C1_InstallFailFast ==
    (~firewallConfiguration.SimulateOnly /\ installErr # 0) =>
        /\ pc = "done"
        /\ ret = "err"
        /\ dispatched = DispatchedBefore(installErr)
        /\ table = Effect(tableAtInstall, commands, installErr - 1)

C1_Witness ==
    /\ ~firewallConfiguration.SimulateOnly
    /\ installErr = 4
    /\ pc = "done"
    /\ ret = "err"
    /\ table # tableAtInstall

(* C2: cleanup failures never abort the run.  Whatever subset of the six   *)
(* cleanup commands fails, they are all run, in the order of the code,     *)
(* the composition and the "adding rules" loop are entered, and an error   *)
(* is returned only for the first dump or for a command of the loop.       *)
C2_CleanupNeverAborts ==
    ~firewallConfiguration.SimulateOnly =>
        /\ pc = "cleanup" =>
              /\ ret = "none"
              /\ Len(dispatched) = idx
              /\ \A k \in 1..(idx - 1) :
                    dispatched[k + 1] = ExecArgs(firewallConfiguration, cleanupCommands[k])
        /\ cleanupErrs # {} =>
              \/ pc = "cleanup"
              \/ /\ Len(dispatched) > Len(cleanupCommands)
                 /\ SubSeq(dispatched, 1, Len(cleanupCommands) + 1) = DispatchedBefore(0)
                 /\ pc = "configuration" => ret = "none"
                 /\ ret = "err" => installErr # 0
                 /\ pc = "done" => (ret = "nil" <=> installErr = 0)

C2_Witness ==
    /\ ~firewallConfiguration.SimulateOnly
    /\ pc = "done"
    /\ ret = "nil"
    /\ cleanupErrs # {}
    /\ cleanupErrs # 1..Len(cleanupCommands)

-----------------------------------------------------------------------------
(* Reading a composed rule back *)

IsAppendTo(c, chain) == Action(c) = "-A" /\ Chain(c) = chain
IsCreate(c, chain) == Action(c) = "-N" /\ Chain(c) = chain
IsRedirect(c) == Target(Rule(c)) = "REDIRECT"
IsReturn(c) == Target(Rule(c)) = "RETURN"
DestinationPort(c) == ArgAfter(Rule(c), "--destination-port")
ToPort(c) == ArgAfter(Rule(c), "--to-port")

IsPortReturn(c) ==
    /\ IsReturn(c)
    /\ Has(Rule(c), "--destination-port")
    /\ ArgAfter(Rule(c), "-p") = "tcp"
    /\ ~Has(Rule(c), "--uid-owner") /\ ~Has(Rule(c), "-o") /\ ~Has(Rule(c), "!")

IsLoopbackReturn(c) ==
    /\ IsReturn(c)
    /\ ArgAfter(Rule(c), "-o") = "lo"
    /\ ~Has(Rule(c), "--uid-owner") /\ ~Has(Rule(c), "--destination-port")
    /\ ~Has(Rule(c), "!") /\ ~Has(Rule(c), "-p")

IsIdentityReturn(c, uid) ==
    /\ IsReturn(c)
    /\ ArgAfter(Rule(c), "--uid-owner") = Itoa(uid)
    /\ ~Has(Rule(c), "-o") /\ ~Has(Rule(c), "--destination-port")
    /\ ~Has(Rule(c), "!") /\ ~Has(Rule(c), "-p")

IsHairpin(c, uid) ==
    /\ Target(Rule(c)) = redirectChainName
    /\ ArgAfter(Rule(c), "--uid-owner") = Itoa(uid)
    /\ ArgAfter(Rule(c), "-o") = "lo"
    /\ ArgAfter(Rule(c), "!") = "-d 127.0.0.1/32"
    /\ ~Has(Rule(c), "--destination-port") /\ ~Has(Rule(c), "-p")

IsUnconditionalRedirect(c, port) ==
    /\ IsRedirect(c)
    /\ ToPort(c) = Itoa(port)
    /\ ArgAfter(Rule(c), "-p") = "tcp"
    /\ ~Has(Rule(c), "--destination-port") /\ ~Has(Rule(c), "--uid-owner")
    /\ ~Has(Rule(c), "-o") /\ ~Has(Rule(c), "!")

IsPortRedirect(c, destinationPort, port) ==
    /\ IsRedirect(c)
    /\ ToPort(c) = Itoa(port)
    /\ DestinationPort(c) = Itoa(destinationPort)
    /\ ArgAfter(Rule(c), "-p") = "tcp"
    /\ ~Has(Rule(c), "--uid-owner") /\ ~Has(Rule(c), "-o") /\ ~Has(Rule(c), "!")

(* The rules appended to PROXY_INIT_OUTPUT, in the order of commands *)
OutputChainRules ==
    LET Test(c) == IsAppendTo(c, outputChainName) IN SelectSeq(commands, Test)

(* The inbound transaction: the commands on PROXY_INIT_REDIRECT and PREROUTING *)
InboundTransaction ==
    LET Test(c) == Chain(c) \in {redirectChainName, IptablesPreroutingChainName}
    IN  SelectSeq(commands, Test)

Composed == pc = "adding rules"

-----------------------------------------------------------------------------
(* C3: in the composed commands, every exemption rule appended to          *)
(* PROXY_INIT_OUTPUT (the RETURN of the proxy's uid, the loopback RETURN,  *)
(* one RETURN per entry of OutboundPortsToIgnore) comes strictly before    *)
(* the unconditional REDIRECT to ProxyOutgoingPort, that REDIRECT is the   *)
(* last rule appended to the chain, and the port RETURN rules follow the   *)
(* order of OutboundPortsToIgnore.                                         *)
C3_ExemptionsBeforeRedirect ==
    Composed =>
        LET out   == OutputChainRules
            n     == Len(out)
            ports == firewallConfiguration.OutboundPortsToIgnore
            uid   == firewallConfiguration.ProxyUID
            portRules == SelectSeq(out, IsPortReturn)
        IN  /\ n > 0
            /\ IsUnconditionalRedirect(out[n], firewallConfiguration.ProxyOutgoingPort)
            /\ \A i \in 1..(n - 1) : ~IsRedirect(out[i])
            /\ Cardinality({i \in 1..(n - 1) : IsLoopbackReturn(out[i])}) = 1
            /\ Cardinality({i \in 1..(n - 1) : IsIdentityReturn(out[i], uid)})
                  = IF uid > 0 THEN 1 ELSE 0
            /\ Len(portRules) = Len(ports)
            /\ \A i \in 1..Len(ports) : DestinationPort(portRules[i]) = Itoa(ports[i])
            /\ \A i \in 1..n : IsReturn(out[i]) =>
                  IsLoopbackReturn(out[i]) \/ IsIdentityReturn(out[i], uid) \/ IsPortReturn(out[i])

C3_Witness ==
    /\ Composed
    /\ firewallConfiguration.OutboundPortsToIgnore = <<8080, 80>>
    /\ firewallConfiguration.ProxyUID > 0
    /\ Len(OutputChainRules) = 6

(* C4: with ProxyUID > 0 the composed commands hold exactly one hairpin    *)
(* rule (owner ProxyUID, output interface lo, destination not              *)
(* 127.0.0.1/32, jump to PROXY_INIT_REDIRECT) and exactly one RETURN rule  *)
(* for ProxyUID, the hairpin rule before the RETURN rule of the uid and    *)
(* both before the loopback RETURN rule.                                   *)
C4_HairpinThenIdentityThenLoopback ==
    (Composed /\ firewallConfiguration.ProxyUID > 0) =>
        LET uid == firewallConfiguration.ProxyUID
            H == {i \in 1..Len(commands) :
                    IsAppendTo(commands[i], outputChainName) /\ IsHairpin(commands[i], uid)}
            I == {i \in 1..Len(commands) :
                    IsAppendTo(commands[i], outputChainName) /\ IsIdentityReturn(commands[i], uid)}
            L == {i \in 1..Len(commands) :
                    IsAppendTo(commands[i], outputChainName) /\ IsLoopbackReturn(commands[i])}
        IN  /\ Cardinality(H) = 1
            /\ Cardinality(I) = 1
            /\ Cardinality(L) = 1
            /\ \A h \in H : \A i \in I : \A l \in L : h < i /\ i < l
            /\ \A k \in 1..Len(commands) :
                  (Has(commands[k], "--uid-owner") \/ Target(Rule(commands[k])) = redirectChainName)
                      => k \in H \cup I \/ Chain(commands[k]) = IptablesPreroutingChainName

C4_Witness ==
    /\ Composed
    /\ firewallConfiguration.ProxyUID = 2102
    /\ \E i \in 1..Len(commands) : IsHairpin(commands[i], 2102)

(* C9: in redirect-listed mode the inbound transaction is: create          *)
(* PROXY_INIT_REDIRECT, the RETURN rules of InboundPortsToIgnore, one      *)
(* port-conditional REDIRECT per element of PortsToRedirectInbound in list *)
(* order (repeats kept), each matching that element as destination port    *)
(* and redirecting to ProxyInboundPort, and last the jump from PREROUTING;  *)
(* with the empty list, no REDIRECT but still the create and the jump.      *)
C9_ListedModeInbound ==
    (Composed /\ firewallConfiguration.Mode = RedirectListedMode) =>
        LET inb == InboundTransaction
            ign == firewallConfiguration.InboundPortsToIgnore
            lst == firewallConfiguration.PortsToRedirectInbound
            n   == Len(inb)
        IN  /\ n = 2 + Len(ign) + Len(lst)
            /\ IsCreate(inb[1], redirectChainName)
            /\ \A k \in 1..Len(ign) :
                  /\ IsAppendTo(inb[1 + k], redirectChainName)
                  /\ IsPortReturn(inb[1 + k])
                  /\ DestinationPort(inb[1 + k]) = Itoa(ign[k])
            /\ \A k \in 1..Len(lst) :
                  /\ IsAppendTo(inb[1 + Len(ign) + k], redirectChainName)
                  /\ IsPortRedirect(inb[1 + Len(ign) + k], lst[k],
                                    firewallConfiguration.ProxyInboundPort)
            /\ IsAppendTo(inb[n], IptablesPreroutingChainName)
            /\ Target(Rule(inb[n])) = redirectChainName

C9_Witness ==
    /\ Composed
    /\ firewallConfiguration.Mode = RedirectListedMode
    /\ firewallConfiguration.PortsToRedirectInbound = <<8080, 8080>>
    /\ firewallConfiguration.InboundPortsToIgnore = <<80>>
    /\ Len(InboundTransaction) = 5

(* C10: in redirect-all mode, whatever PortsToRedirectInbound holds, the    *)
(* inbound transaction has exactly one REDIRECT rule, which does not match  *)
(* on the destination port and redirects to ProxyInboundPort.               *)
C10_AllModeOneRedirect ==
    (Composed /\ firewallConfiguration.Mode = RedirectAllMode) =>
        LET inb == InboundTransaction
            R   == {i \in 1..Len(inb) : IsRedirect(inb[i])}
        IN  /\ Cardinality(R) = 1
            /\ \A i \in R :
                  /\ IsAppendTo(inb[i], redirectChainName)
                  /\ IsUnconditionalRedirect(inb[i], firewallConfiguration.ProxyInboundPort)

C10_Witness ==
    /\ Composed
    /\ firewallConfiguration.Mode = RedirectAllMode
    /\ firewallConfiguration.PortsToRedirectInbound = <<80, 8080>>
    /\ \E i \in 1..Len(InboundTransaction) : IsRedirect(InboundTransaction[i])

-----------------------------------------------------------------------------
(* The indexes of the rules of hook that jump to chain *)
JumpsInto(tbl, hook, chain) == {i \in 1..Len(tbl[hook]) : Target(tbl[hook][i]) = chain}

(* C5: running again is idempotent.  From the table left by a completed    *)
(* run with the same configuration and another ExecutionTraceID, and with  *)
(* no command failing for a reason outside the table, after the cleanup    *)
(* neither OUTPUT nor PREROUTING holds a jump into PROXY_INIT_OUTPUT or     *)
(* PROXY_INIT_REDIRECT and neither chain exists, so the installation        *)
(* succeeds and leaves exactly one jump in each hook chain.                 *)
C5_RerunIdempotent ==
    (runs > 1 /\ prev.ret = "nil" /\ prev.id # ExecutionTraceID /\ ~envFailed) =>
        /\ pc = "configuration" =>
              /\ JumpsInto(table, IptablesOutputChainName, outputChainName) = {}
              /\ JumpsInto(table, IptablesPreroutingChainName, redirectChainName) = {}
              /\ outputChainName \notin DOMAIN table
              /\ redirectChainName \notin DOMAIN table
        /\ pc = "done" =>
              /\ ret = "nil"
              /\ Cardinality(JumpsInto(table, IptablesOutputChainName, outputChainName)) = 1
              /\ Cardinality(JumpsInto(table, IptablesPreroutingChainName, redirectChainName)) = 1

(* ConfigureFirewall has returned nil after running its commands *)
Installed ==
    /\ ~firewallConfiguration.SimulateOnly
    /\ pc = "done"
    /\ ret = "nil"

(* C6: with ProxyUID > 0, in the table of a successful run, no packet      *)
(* owned by ProxyUID is decided by the REDIRECT rule of PROXY_INIT_OUTPUT   *)
(* when OUTPUT is evaluated, whatever its destination, interface and port.  *)
C6_ProxyTrafficNotRedirected ==
    (Installed /\ firewallConfiguration.ProxyUID > 0) =>
        \A pkt \in Packets({firewallConfiguration.ProxyUID}) :
            LET v == Hook(table, IptablesOutputChainName, pkt)
            IN  ~(v.verdict = "REDIRECT" /\ v.chain = outputChainName)

C6_Witness ==
    /\ Installed
    /\ firewallConfiguration.ProxyUID = 2102
    /\ \E pkt \in Packets({2102}) :
          Hook(table, IptablesOutputChainName, pkt).chain = redirectChainName
    /\ \E pkt \in Packets({1000}) :
          LET v == Hook(table, IptablesOutputChainName, pkt)
          IN  /\ v.verdict = "REDIRECT"
              /\ v.chain = outputChainName
              /\ v.port = Itoa(firewallConfiguration.ProxyOutgoingPort)

(* C7: the order of the commands of one run.  Every command that is run    *)
(* belongs to one phase: the dumps, the cleanup (-D, -F, -X), the inbound   *)
(* transaction (PROXY_INIT_REDIRECT and PREROUTING) and the outbound        *)
(* transaction (PROXY_INIT_OUTPUT and OUTPUT).                              *)
IsCleanup(argv) == Action(argv) \in {"-D", "-F", "-X"}
IsInbound(argv) ==
    /\ Action(argv) \in {"-N", "-A"}
    /\ Chain(argv) \in {redirectChainName, IptablesPreroutingChainName}
IsOutbound(argv) ==
    /\ Action(argv) \in {"-N", "-A"}
    /\ Chain(argv) \in {outputChainName, IptablesOutputChainName}

(* The phases in the order given: the first dump, the cleanup, the         *)
(* transaction of First, the transaction of Second, the last dump          *)
Phase(i, First(_), Second(_)) ==
    LET argv == dispatched[i]
    IN  IF IsCleanup(argv) THEN 1
        ELSE IF First(argv) THEN 2
        ELSE IF Second(argv) THEN 3
        ELSE IF i = 1 THEN 0 ELSE 4

(* No command is run before a command of an earlier phase *)
InPhaseOrder(First(_), Second(_)) ==
    \A i \in 1..(Len(dispatched) - 1) :
        Phase(i, First, Second) <= Phase(i + 1, First, Second)

(* The transaction of the commands that satisfy In is complete: it starts  *)
(* with the creation of chain and ends with the jump from hook             *)
Complete(In(_), chain, hook) ==
    LET at == {i \in 1..Len(dispatched) : In(dispatched[i])}
        lo == CHOOSE i \in at : \A j \in at : i <= j
        hi == CHOOSE i \in at : \A j \in at : j <= i
    IN  /\ at # {}
        /\ IsCreate(dispatched[lo], chain)
        /\ IsAppendTo(dispatched[hi], hook)
        /\ Target(Rule(dispatched[hi])) = chain

(* C7 as claimed: cleanup, then the whole outbound transaction, then the   *)
(* whole inbound transaction; no inbound command before the last outbound  *)
(* command.                                                                *)
C7_OutboundThenInbound ==
    /\ InPhaseOrder(IsOutbound, IsInbound)
    /\ Installed =>
          /\ Complete(IsOutbound, outputChainName, IptablesOutputChainName)
          /\ Complete(IsInbound, redirectChainName, IptablesPreroutingChainName)

(* C7 amended: cleanup, then the whole inbound transaction (create         *)
(* PROXY_INIT_REDIRECT, its rules, jump from PREROUTING), then the whole   *)
(* outbound transaction (create PROXY_INIT_OUTPUT, its rules, jump from    *)
(* OUTPUT); no outbound command before the last inbound command.           *)
C7_InboundThenOutbound ==
    /\ InPhaseOrder(IsInbound, IsOutbound)
    /\ Installed =>
          /\ Complete(IsInbound, redirectChainName, IptablesPreroutingChainName)
          /\ Complete(IsOutbound, outputChainName, IptablesOutputChainName)
          /\ dispatched = Append(DispatchedBefore(Len(commands)),
                                 ExecArgs(firewallConfiguration, makeShowAllRules))

C7_Witness ==
    /\ Installed
    /\ firewallConfiguration.ProxyUID > 0
    /\ \E i, j \in 1..Len(dispatched) :
          i < j /\ IsInbound(dispatched[i]) /\ IsOutbound(dispatched[j])

(* C8: with SimulateOnly the composed commands are not empty, no command   *)
(* is run as a process during the whole call (dumps, cleanup and             *)
(* installation), the table is unchanged and ConfigureFirewall returns nil. *)
C8_SimulateOnlyRunsNothing ==
    firewallConfiguration.SimulateOnly =>
        /\ dispatched = <<>>
        /\ table = InitialTable
        /\ ret # "err"
        /\ pc \in {"adding rules", "end state", "done"} => Len(commands) > 0
        /\ pc = "done" => ret = "nil"

C8_Witness ==
    /\ firewallConfiguration.SimulateOnly
    /\ pc = "done"
    /\ ret = "nil"
    /\ Len(commands) > 3
    /\ dispatched = <<>>

-----------------------------------------------------------------------------
(* The members of a port list *)
Range(s) == {s[i] : i \in 1..Len(s)}

(* The packets of protocol TCP that reach a hook *)
TCPPackets(uids) == {pkt \in Packets(uids) : pkt.proto = "tcp"}

(* The inbound policy of a configuration for destination port p *)
InboundPolicyRedirects(cfg, p) ==
    /\ p \notin Range(cfg.InboundPortsToIgnore)
    /\ \/ cfg.Mode = RedirectAllMode
       \/ cfg.Mode = RedirectListedMode /\ p \in Range(cfg.PortsToRedirectInbound)

(* C11: in the table of a successful run, when PREROUTING is evaluated     *)
(* first match first, an inbound TCP packet to port p is redirected, and   *)
(* then to ProxyInboundPort, exactly when p is not in InboundPortsToIgnore  *)
(* and Mode is redirect-all, or Mode is redirect-listed and p is in        *)
(* PortsToRedirectInbound; every other packet passes through.              *)
C11_InboundPolicy ==
    Installed =>
        \A pkt \in TCPPackets({1000}) :
            LET v == Hook(table, IptablesPreroutingChainName, pkt)
            IN  IF InboundPolicyRedirects(firewallConfiguration, pkt.dport)
                THEN /\ v.verdict = "REDIRECT"
                     /\ v.port = Itoa(firewallConfiguration.ProxyInboundPort)
                ELSE v.verdict = "ACCEPT"

(* A port both ignored and listed passes through, a port not listed passes *)
(* through, in a table where the run has installed the PREROUTING jump     *)
C11_Witness ==
    /\ Installed
    /\ firewallConfiguration.Mode = RedirectListedMode
    /\ firewallConfiguration.InboundPortsToIgnore = <<80>>
    /\ firewallConfiguration.PortsToRedirectInbound = <<80>>
    /\ Cardinality(JumpsInto(table, IptablesPreroutingChainName, redirectChainName)) = 1
    /\ \A pkt \in TCPPackets({1000}) :
          Hook(table, IptablesPreroutingChainName, pkt).verdict = "ACCEPT"

-----------------------------------------------------------------------------
(* The packets that the hairpin rule of PROXY_INIT_OUTPUT hands to          *)
(* PROXY_INIT_REDIRECT: owned by ProxyUID, leaving through lo, not to       *)
(* 127.0.0.1                                                                *)
IsHairpinPacket(cfg, pkt) ==
    /\ cfg.ProxyUID > 0
    /\ pkt.uid = cfg.ProxyUID
    /\ pkt.oif = "lo"
    /\ pkt.dst # "127.0.0.1"

OutboundIgnored(cfg, pkt) == pkt.dport \in Range(cfg.OutboundPortsToIgnore)

(* C12 as stated: in the table of a successful run, when OUTPUT is         *)
(* evaluated first match first, no TCP packet whose destination port is in *)
(* OutboundPortsToIgnore is redirected, whoever owns it and whatever its    *)
(* interface and destination, the packets of ProxyUID leaving through lo   *)
(* to another address than 127.0.0.1 included.                             *)
C12_IgnoredOutboundNeverRedirected ==
    Installed =>
        \A pkt \in TCPPackets({0, 1000, 2102}) :
            OutboundIgnored(firewallConfiguration, pkt) =>
                Hook(table, IptablesOutputChainName, pkt).verdict # "REDIRECT"

(* C12, amended: a TCP packet whose destination port is in                 *)
(* OutboundPortsToIgnore is not redirected when OUTPUT is evaluated,        *)
(* except the packets of ProxyUID leaving through lo to another address    *)
(* than 127.0.0.1; those are decided by PROXY_INIT_REDIRECT, that is       *)
(* redirected to ProxyInboundPort exactly when the inbound policy          *)
(* redirects their destination port.                                       *)
C12_IgnoredOutboundExceptHairpin ==
    Installed =>
        \A pkt \in TCPPackets({0, 1000, 2102}) :
            OutboundIgnored(firewallConfiguration, pkt) =>
                LET v == Hook(table, IptablesOutputChainName, pkt)
                IN  IF IsHairpinPacket(firewallConfiguration, pkt)
                       /\ InboundPolicyRedirects(firewallConfiguration, pkt.dport)
                    THEN /\ v.verdict = "REDIRECT"
                         /\ v.chain = redirectChainName
                         /\ v.port = Itoa(firewallConfiguration.ProxyInboundPort)
                    ELSE v.verdict = "ACCEPT"

(* An ignored port is in force for the traffic of another owner while the  *)
(* same port of a hairpin packet is redirected to ProxyInboundPort         *)
C12_Witness ==
    /\ Installed
    /\ firewallConfiguration.ProxyUID = 2102
    /\ firewallConfiguration.OutboundPortsToIgnore = <<80>>
    /\ \E pkt \in TCPPackets({1000}) :
          /\ pkt.dport = 80
          /\ Hook(table, IptablesOutputChainName, pkt).verdict = "ACCEPT"
    /\ \E pkt \in TCPPackets({1000}) :
          /\ pkt.dport = 8080
          /\ pkt.oif = "eth0"
          /\ Hook(table, IptablesOutputChainName, pkt).verdict = "REDIRECT"
    /\ \E pkt \in TCPPackets({2102}) :
          /\ pkt.dport = 80
          /\ IsHairpinPacket(firewallConfiguration, pkt)
          /\ Hook(table, IptablesOutputChainName, pkt).verdict = "REDIRECT"

-----------------------------------------------------------------------------
(* The dump of the rule table, as it is run *)
IsDump(argv) == StripNsenter(argv)[1] = "iptables-save"

(* The positions of the dumps among the commands run so far *)
Dumps == {i \in 1..Len(dispatched) : IsDump(dispatched[i])}

(* C13: the dump is run once before the first cleanup command and once     *)
(* after the last installation command of a successful installation, and   *)
(* nowhere else.  When the first dump fails ConfigureFirewall returns the   *)
(* error and runs no cleanup and no installation command; when the last    *)
(* dump fails ConfigureFirewall still returns nil.                         *)
C13_DumpsBracketTheRun ==
    ~firewallConfiguration.SimulateOnly =>
        /\ Dumps = IF dispatched = <<>> THEN {}
                   ELSE IF pc = "done" /\ ret = "nil" THEN {1, Len(dispatched)}
                   ELSE {1}
        /\ Installed =>
              /\ Len(dispatched) = 1 + Len(cleanupCommands) + Len(commands) + 1
              /\ \A i \in 2..(Len(dispatched) - 1) :
                    Action(dispatched[i]) \in {"-D", "-F", "-X", "-N", "-A"}
        /\ "current state" \in dumpErrs =>
              /\ pc = "done"
              /\ ret = "err"
              /\ Len(dispatched) = 1
              /\ table = tableAtInstall
        /\ ("end state" \in dumpErrs /\ pc = "done") => ret = "nil"

(* The installation succeeded and the dump that followed it failed *)
C13_Witness ==
    /\ Installed
    /\ dumpErrs = {"end state"}
    /\ Dumps = {1, Len(dispatched)}
    /\ Len(dispatched) > 2

(* The first dump failed and the run stopped there *)
C13_WitnessFirstDump ==
    /\ ~firewallConfiguration.SimulateOnly
    /\ dumpErrs = {"current state"}
    /\ ret = "err"
    /\ Len(dispatched) = 1

-----------------------------------------------------------------------------
(* The chains the program owns, and the rules of a hook that are not its   *)
(* jump into one of them                                                   *)
OwnChains == {outputChainName, redirectChainName}

IsForeign(rule) == Target(rule) \notin OwnChains

IsMutation(argv) == ~IsDump(argv)

(* The hook chain from which the program jumps into its chain *)
HookOf(chain) ==
    IF chain = outputChainName THEN IptablesOutputChainName ELSE IptablesPreroutingChainName

(* C14: the frame.  Whatever the configuration and whichever commands      *)
(* fail, across runs: every mutation names the nat table; a chain is        *)
(* created, flushed or deleted only if it is PROXY_INIT_OUTPUT or          *)
(* PROXY_INIT_REDIRECT; a rule is appended to or deleted from a built-in   *)
(* chain only if it is the jump OUTPUT -> PROXY_INIT_OUTPUT or PREROUTING   *)
(* -> PROXY_INIT_REDIRECT; and in the table every other chain exists with   *)
(* the rules it had, the foreign rules of OUTPUT and PREROUTING included.   *)
C14_Frame ==
    /\ \A i \in 1..Len(dispatched) :
          LET a == StripNsenter(dispatched[i])
          IN  IsMutation(a) =>
                  /\ a[1] = "iptables" /\ a[2] = "-t" /\ a[3] = "nat"
                  /\ \/ Chain(a) \in OwnChains
                     \/ \E c \in OwnChains :
                           /\ Action(a) \in {"-A", "-D"}
                           /\ Chain(a) = HookOf(c)
                           /\ Target(Rule(a)) = c
    /\ DOMAIN table \ OwnChains = DOMAIN InitialTable
    /\ \A c \in DOMAIN InitialTable :
          /\ SelectSeq(table[c], IsForeign) = InitialTable[c]
          /\ \A i \in 1..Len(table[c]) :
                ~IsForeign(table[c][i]) => c = HookOf(Target(table[c][i]))

(* A second run has flushed the chains of the first and run into them      *)
(* again, with the table still holding the jumps and the foreign rules     *)
C14_Witness ==
    /\ runs = 2
    /\ pc = "done"
    /\ 3 \notin cleanupErrs
    /\ 5 \notin cleanupErrs
    /\ table # InitialTable
    /\ Len(table[IptablesOutputChainName]) > Len(InitialTable[IptablesOutputChainName])
    /\ outputChainName \in DOMAIN table
    /\ table[outputChainName] = <<>>

-----------------------------------------------------------------------------
(* The operation labels ConfigureFirewall passes to the builders *)
OperationLabels ==
    {"redirect-common-chain", "install-proxy-init-prerouting", "install-proxy-init-output",
     "redirect-all-incoming-to-proxy-port", "redirect-all-outgoing-to-proxy-port",
     "redirect-non-loopback-local-traffic", "ignore-proxy-user-id", "ignore-loopback"}
    \cup {"ignore-port-" \o Itoa(p) : p \in Ports}
    \cup {"redirect-port-" \o Itoa(p) \o "-to-proxy-port" : p \in Ports}

(* The command carries a comment proxy-init/<operation label>/<id> *)
Tagged(args, id) ==
    /\ Has(args, "--comment")
    /\ \E l \in OperationLabels :
          ArgAfter(args, "--comment") = "proxy-init/" \o l \o "/" \o id

(* The mutations built so far in this run: the cleanup commands up to the *)
(* one last given to executeCommand, then the composition                  *)
Constructed ==
    IF pc = "current state" \/ "current state" \in dumpErrs THEN <<>>
    ELSE IF pc = "cleanup" THEN SubSeq(cleanupCommands, 1, idx - 1)
    ELSE cleanupCommands \o commands

(* C15 as stated: every mutation built during a run, the flush and the     *)
(* delete of a chain included, and every mutation run, carries a comment   *)
(* proxy-init/<operation label>/<ExecutionTraceID of the run>.             *)
C15_EveryMutationTagged ==
    /\ \A i \in 1..Len(Constructed) : Tagged(Constructed[i], ExecutionTraceID)
    /\ \A i \in 1..Len(dispatched) :
          IsMutation(dispatched[i]) => Tagged(dispatched[i], ExecutionTraceID)

IsFlushOrDelete(args) == Action(args) \in {"-F", "-X"}

(* C15, amended: every mutation built during a run except the flush and    *)
(* the delete of a chain, which carry no comment, and every such mutation  *)
(* run, carries a comment proxy-init/<operation label>/<ExecutionTraceID>  *)
(* with the one ExecutionTraceID of the run; a run started in another      *)
(* whole second than the run before it has another ExecutionTraceID and    *)
(* none of its comments carries the former one.                            *)
C15_MutationsTaggedExceptFlushDelete ==
    /\ \A i \in 1..Len(Constructed) :
          IF IsFlushOrDelete(Constructed[i])
          THEN ~Has(Constructed[i], "--comment")
          ELSE Tagged(Constructed[i], ExecutionTraceID)
    /\ \A i \in 1..Len(dispatched) :
          IsMutation(dispatched[i]) =>
              IF IsFlushOrDelete(dispatched[i])
              THEN ~Has(dispatched[i], "--comment")
              ELSE /\ Tagged(dispatched[i], ExecutionTraceID)
                   /\ (runs > 1 /\ prev.at # now) => ~Tagged(dispatched[i], prev.id)
    /\ (runs > 1 /\ prev.at # now) => prev.id # ExecutionTraceID

(* A second run, started a second after the first, has run its cleanup and *)
(* the first command of its installation                                   *)
C15_Witness ==
    /\ runs = 2
    /\ prev.at # now
    /\ prev.id = "1"
    /\ ExecutionTraceID = "2"
    /\ Len(dispatched) > 1 + Len(cleanupCommands)
    /\ Tagged(dispatched[2], "2")
    /\ IsFlushOrDelete(dispatched[4])
    /\ Tagged(dispatched[Len(dispatched)], "2")

-----------------------------------------------------------------------------
(* The outbound transaction: the commands on PROXY_INIT_OUTPUT and OUTPUT *)
OutboundTransaction ==
    LET Test(c) == Chain(c) \in {outputChainName, IptablesOutputChainName}
    IN  SelectSeq(commands, Test)

(* C16: with ProxyUID <= 0 the outbound transaction holds no hairpin rule  *)
(* and no identity RETURN rule; it is exactly: create PROXY_INIT_OUTPUT,   *)
(* the loopback RETURN, one RETURN per element of OutboundPortsToIgnore in  *)
(* order, the unconditional REDIRECT to ProxyOutgoingPort, the jump from   *)
(* OUTPUT.                                                                 *)
C16_NoProxyUIDOutbound ==
    (Composed /\ firewallConfiguration.ProxyUID <= 0) =>
        LET out == OutboundTransaction
            ign == firewallConfiguration.OutboundPortsToIgnore
            n   == Len(out)
        IN  /\ n = 4 + Len(ign)
            /\ IsCreate(out[1], outputChainName)
            /\ IsAppendTo(out[2], outputChainName)
            /\ IsLoopbackReturn(out[2])
            /\ \A k \in 1..Len(ign) :
                  /\ IsAppendTo(out[2 + k], outputChainName)
                  /\ IsPortReturn(out[2 + k])
                  /\ DestinationPort(out[2 + k]) = Itoa(ign[k])
            /\ IsAppendTo(out[n - 1], outputChainName)
            /\ IsUnconditionalRedirect(out[n - 1], firewallConfiguration.ProxyOutgoingPort)
            /\ IsAppendTo(out[n], IptablesOutputChainName)
            /\ Target(Rule(out[n])) = outputChainName
            /\ \A i \in 1..n :
                  /\ ~Has(Rule(out[i]), "--uid-owner")
                  /\ Target(Rule(out[i])) # redirectChainName

(* A negative ProxyUID, with two ports to ignore *)
C16_Witness ==
    /\ Composed
    /\ firewallConfiguration.ProxyUID = -1
    /\ firewallConfiguration.OutboundPortsToIgnore = <<8080, 80>>
    /\ Len(OutboundTransaction) = 6

-----------------------------------------------------------------------------
(* The commands given to executeCommand so far in this run, as built, in   *)
(* the order of the calls                                                  *)
Given ==
    IF pc = "current state" THEN <<>>
    ELSE IF "current state" \in dumpErrs THEN <<makeShowAllRules>>
    ELSE IF pc = "cleanup" THEN <<makeShowAllRules>> \o SubSeq(cleanupCommands, 1, idx - 1)
    ELSE IF pc = "configuration" THEN <<makeShowAllRules>> \o cleanupCommands
    ELSE IF pc = "adding rules"
         THEN <<makeShowAllRules>> \o cleanupCommands \o SubSeq(commands, 1, idx - 1)
    ELSE IF pc = "end state" THEN <<makeShowAllRules>> \o cleanupCommands \o commands
    ELSE IF ret = "nil"
         THEN <<makeShowAllRules>> \o cleanupCommands \o commands \o <<makeShowAllRules>>
    ELSE <<makeShowAllRules>> \o cleanupCommands \o SubSeq(commands, 1, installErr)

NsenterPrefix(cfg) == IF cfg.NetNs # "" THEN <<"nsenter", "--net", cfg.NetNs>> ELSE <<>>

WaitSuffix(cfg) == IF cfg.UseWaitFlag THEN <<"-w">> ELSE <<>>

(* C17: for every command given to executeCommand, the argument vector of  *)
(* the process that is run is nsenter --net NetNs exactly when NetNs is    *)
(* not empty, then the arguments as built, then one -w exactly when        *)
(* UseWaitFlag is set.  With SimulateOnly no process is run, and the -w    *)
(* has been appended to the arguments of the command all the same, the     *)
(* namespace prefix has not.                                               *)
C17_ArgumentVector ==
    LET cfg == firewallConfiguration
        g   == Given
        n   == Len(g)
    IN  IF cfg.SimulateOnly
        THEN /\ dispatched = <<>>
             /\ n > 0 => cmdArgs = g[n] \o WaitSuffix(cfg)
        ELSE /\ Len(dispatched) = n
             /\ \A i \in 1..n :
                   dispatched[i] = NsenterPrefix(cfg) \o g[i] \o WaitSuffix(cfg)
             /\ n > 0 => cmdArgs = dispatched[n]

(* A rule has been appended in another network namespace with the wait flag *)
C17_Witness ==
    /\ ~firewallConfiguration.SimulateOnly
    /\ firewallConfiguration.NetNs = "/proc/7/ns/net"
    /\ firewallConfiguration.UseWaitFlag
    /\ pc = "adding rules"
    /\ idx > 2
    /\ LET a == dispatched[Len(dispatched)]
       IN  /\ SubSeq(a, 1, 7) = <<"nsenter", "--net", "/proc/7/ns/net",
                                  "iptables", "-t", "nat", "-A">>
           /\ a[Len(a)] = "-w"
           /\ a[Len(a) - 1] # "-w"

(* With SimulateOnly the wait flag is appended and nothing is run *)
C17_WitnessSimulate ==
    /\ firewallConfiguration.SimulateOnly
    /\ firewallConfiguration.NetNs = "/proc/7/ns/net"
    /\ firewallConfiguration.UseWaitFlag
    /\ pc = "adding rules"
    /\ idx > 2
    /\ cmdArgs[1] = "iptables"
    /\ cmdArgs[Len(cmdArgs)] = "-w"
    /\ dispatched = <<>>

-----------------------------------------------------------------------------
(* The positions among the commands run so far *)
Creates(chain) == {i \in 1..Len(dispatched) : IsCreate(dispatched[i], chain)}

(* The commands that need the chain to exist: the rules appended to it and *)
(* the rules appended anywhere that jump to it                             *)
Uses(chain) ==
    {i \in 1..Len(dispatched) :
        /\ Action(dispatched[i]) = "-A"
        /\ \/ Chain(dispatched[i]) = chain
           \/ Target(Rule(dispatched[i])) = chain}

IsInstallation(argv) == Action(argv) \in {"-N", "-A"}

(* C18: in the order in which the commands of a run are run, for each of   *)
(* PROXY_INIT_OUTPUT and PROXY_INIT_REDIRECT the creation of the chain     *)
(* comes before every rule appended to it and before every rule that jumps *)
(* to it, the jumps from the hooks and the hairpin rule included; and      *)
(* every cleanup command comes before the first installation command.      *)
C18_CreateBeforeUse ==
    /\ \A chain \in OwnChains :
          \A j \in Uses(chain) : \E i \in Creates(chain) : i < j
    /\ \A j \in 2..Len(dispatched) :
          (IsCleanup(dispatched[j]) => ~IsInstallation(dispatched[j - 1]))
    /\ \A j \in 1..Len(dispatched) :
          IsInstallation(dispatched[j]) => j > 1 + Len(cleanupCommands)

(* Both chains are in use, the hairpin rule jumps to PROXY_INIT_REDIRECT   *)
C18_Witness ==
    /\ Installed
    /\ firewallConfiguration.ProxyUID > 0
    /\ Cardinality(Uses(outputChainName)) > 3
    /\ Cardinality(Uses(redirectChainName)) > 2
    /\ \E j \in Uses(redirectChainName) : Chain(dispatched[j]) = outputChainName
    /\ \E j \in Uses(redirectChainName) : Chain(dispatched[j]) = IptablesPreroutingChainName
    /\ \E j \in Uses(outputChainName) : Chain(dispatched[j]) = IptablesOutputChainName

-----------------------------------------------------------------------------
(* The installation commands run so far, as they were built *)
InstallationsRun ==
    LET Built(argv) == StripWait(StripNsenter(argv))
        inst == SelectSeq(dispatched, IsInstallation)
    IN  [i \in 1..Len(inst) |-> Built(inst[i])]

(* The number of commands of the whole installation of a configuration *)
InstallationSize(cfg) ==
    2 + Len(cfg.InboundPortsToIgnore)
      + (IF cfg.Mode = RedirectAllMode THEN 1
         ELSE IF cfg.Mode = RedirectListedMode THEN Len(cfg.PortsToRedirectInbound)
         ELSE 0)
      + 4 + Len(cfg.OutboundPortsToIgnore)
      + (IF cfg.ProxyUID > 0 THEN 2 ELSE 0)

(* C19 as stated: an installation command is built only when the one       *)
(* before it has been run, so at most one command is built and not yet run  *)
(* and after a failed installation command no later command has been built. *)
C19_ComposedOneAtATime ==
    ~firewallConfiguration.SimulateOnly =>
        /\ Len(commands) <= Len(InstallationsRun) + 1
        /\ installErr # 0 => Len(commands) = installErr

(* C19, amended: the whole installation is built before its first command  *)
(* is run; the commands are then run one at a time in the order built, and *)
(* after a failed installation command the later commands, though built,   *)
(* are not run.                                                            *)
C19_ComposedBeforeDispatched ==
    ~firewallConfiguration.SimulateOnly =>
        LET run == InstallationsRun
        IN  /\ Len(run) <= Len(commands)
            /\ run = SubSeq(commands, 1, Len(run))
            /\ Len(commands) \in {0, InstallationSize(firewallConfiguration)}
            /\ pc = "adding rules" => Len(run) = idx - 1
            /\ pc \in {"adding rules", "end state"} =>
                  Len(commands) = InstallationSize(firewallConfiguration)
            /\ installErr # 0 =>
                  /\ Len(run) = installErr
                  /\ Len(commands) = InstallationSize(firewallConfiguration)

(* The third installation command failed with later commands built *)
C19_Witness ==
    /\ ~firewallConfiguration.SimulateOnly
    /\ pc = "done"
    /\ installErr = 3
    /\ Len(InstallationsRun) = 3
    /\ Len(commands) > 5

-----------------------------------------------------------------------------
(* C20: with a Mode that is neither redirect-all nor redirect-listed, the  *)
(* empty string included, ConfigureFirewall returns no error on account of *)
(* the mode; the inbound transaction still creates PROXY_INIT_REDIRECT,     *)
(* appends the RETURN rules of InboundPortsToIgnore and the jump from       *)
(* PREROUTING, and holds no REDIRECT rule; so in the table of the run no    *)
(* inbound port is redirected, whatever PortsToRedirectInbound holds.       *)
C20_UnknownModeRedirectsNothing ==
    firewallConfiguration.Mode \notin {RedirectAllMode, RedirectListedMode} =>
        /\ Len(commands) > 0 =>
              LET inb == InboundTransaction
                  ign == firewallConfiguration.InboundPortsToIgnore
                  n   == Len(inb)
              IN  /\ n = 2 + Len(ign)
                  /\ IsCreate(inb[1], redirectChainName)
                  /\ \A k \in 1..Len(ign) :
                        /\ IsAppendTo(inb[1 + k], redirectChainName)
                        /\ IsPortReturn(inb[1 + k])
                        /\ DestinationPort(inb[1 + k]) = Itoa(ign[k])
                  /\ IsAppendTo(inb[n], IptablesPreroutingChainName)
                  /\ Target(Rule(inb[n])) = redirectChainName
                  /\ \A i \in 1..n : ~IsRedirect(inb[i])
        /\ (pc = "done" /\ ~envFailed) => ret = "nil"
        /\ Installed =>
              /\ redirectChainName \in DOMAIN table
              /\ Len(table[redirectChainName]) =
                     Len(firewallConfiguration.InboundPortsToIgnore)
              /\ \A pkt \in TCPPackets({1000}) :
                    Hook(table, IptablesPreroutingChainName, pkt).verdict = "ACCEPT"

(* The mode is the empty string, a port is listed, the run succeeded *)
C20_Witness ==
    /\ Installed
    /\ ~envFailed
    /\ firewallConfiguration.Mode = ""
    /\ firewallConfiguration.PortsToRedirectInbound = <<80>>
    /\ firewallConfiguration.InboundPortsToIgnore = <<8080>>
    /\ Len(table[redirectChainName]) = 1
    /\ Cardinality(JumpsInto(table, IptablesPreroutingChainName, redirectChainName)) = 1

====
